---------------------------- MODULE Spec2Model ----------------------------
(***************************************************************************)
(* Model of the wbgt package: the zonal aggregator                         *)
(* (functions/spatial.py, join_wbgt_to_geography), the gap filler          *)
(* (functions/api.py, fill_nan_with_nearest_2d and fill_mrt_data), the     *)
(* download functions (functions/api.py), compute_daily_and_max_wbgt       *)
(* (functions/compute.py) and get_wbgt (core.py).                          *)
(*                                                                         *)
(* Floating point numbers are modelled as exact fractions <<n, d>> in      *)
(* lowest terms with d > 0; the IEEE not-a-number is <<0, 0>>.             *)
(* Coordinates are kept in half degrees, so that the corner of a cell      *)
(* (centre +/- spacing / 2) is an integer.                                 *)
(***************************************************************************)
EXTENDS Integers, Sequences, FiniteSets, TLC

(***************************************************************************)
(* Bounds of the model.                                                    *)
(***************************************************************************)
\* the largest number of regions a shapefile holds
MaxRegions == 2
\* the largest number of rows of a field handed to the gap filler
MaxRows == 2
\* the largest number of columns of a field handed to the gap filler
MaxCols == 2

(***************************************************************************)
(* Floating point values as fractions.                                     *)
(***************************************************************************)
Abs(x) == IF x < 0 THEN -x ELSE x

RECURSIVE GCD(_, _)
GCD(a, b) == IF b = 0 THEN a ELSE GCD(b, a % b)

NaN == <<0, 0>>

IsNaN(x) == x[2] = 0

\* the fraction n / d in lowest terms (d # 0)
Frac(n, d) ==
    LET g == GCD(Abs(n), Abs(d))
        s == IF d < 0 THEN -1 ELSE 1
    IN  <<(s * n) \div g, (s * d) \div g>>

Flt(n) == <<n, 1>>

FAdd(x, y) ==
    IF IsNaN(x) \/ IsNaN(y) THEN NaN
    ELSE Frac(x[1] * y[2] + y[1] * x[2], x[2] * y[2])

FMul(x, y) ==
    IF IsNaN(x) \/ IsNaN(y) THEN NaN
    ELSE Frac(x[1] * y[1], x[2] * y[2])

\* x / y for a divisor that is not zero
FDiv(x, y) ==
    IF IsNaN(x) \/ IsNaN(y) THEN NaN
    ELSE Frac(x[1] * y[2], x[2] * y[1])

FPositive(x) == ~IsNaN(x) /\ x[1] > 0


(***************************************************************************)
(* Planar geometry of axis-parallel rectangles (shapely box, intersects,   *)
(* intersection, area), in half degrees.                                   *)
(***************************************************************************)
Min(a, b) == IF a < b THEN a ELSE b

Max(a, b) == IF a > b THEN a ELSE b

box(minx, miny, maxx, maxy) ==
    [minx |-> minx, miny |-> miny, maxx |-> maxx, maxy |-> maxy]

\* shapely area of a rectangle
area(g) == (g.maxx - g.minx) * (g.maxy - g.miny)

\* shapely intersects: the two closed rectangles share at least one point
\* (a common edge or corner counts)
intersects(a, b) ==
    /\ a.minx <= b.maxx
    /\ b.minx <= a.maxx
    /\ a.miny <= b.maxy
    /\ b.miny <= a.maxy

\* shapely intersection of two rectangles that intersect: a rectangle, a
\* segment or a point (the last two have area 0 and are not empty)
intersection(a, b) ==
    box(Max(a.minx, b.minx), Max(a.miny, b.miny),
        Min(a.maxx, b.maxx), Min(a.maxy, b.maxy))

(***************************************************************************)
(* Inputs of join_wbgt_to_geography.                                       *)
(***************************************************************************)
\* the values a grid cell may hold
CellValues == {10, 20, 30, 40}

\* latitude and longitude axes (cell centres, in degrees) with a spacing,
\* and axes without one: a single value, or the same value twice
LatAxes == {<<0, 1>>, <<1, 0>>}

LonAxes == {<<0, 1>>}

FlatLatAxes == {<<0>>, <<0, 0>>}

FlatLonAxes == {<<0>>, <<0, 0>>}

\* every grid over the given axes with cell values in vals: values[i][j] is
\* the value at (lats[i], lons[j])
GridsOver(lats, lons, vals) ==
    { [latitude |-> lats, longitude |-> lons, values |-> v] :
        v \in [1..Len(lats) -> [1..Len(lons) -> vals]] }

Grids ==
    UNION ( { GridsOver(la, lo, CellValues) : la \in LatAxes, lo \in LonAxes }
            \cup { GridsOver(la, lo, {10, 20}) :
                      la \in FlatLatAxes, lo \in LonAxes \cup FlatLonAxes }
            \cup { GridsOver(la, lo, {10, 20}) :
                      la \in LatAxes, lo \in FlatLonAxes } )

\* the regions a shapefile may hold: rectangles over and around the 2 x 2
\* grid with centres 0 and 1, whose cells cover [-1, 3] x [-1, 3]
RegionTable ==
    << [GEOID |-> "01", geometry |-> box(1, -1, 3, 3)],    \* right half
       [GEOID |-> "02", geometry |-> box(-1, 1, 3, 3)],    \* top half
       [GEOID |-> "03", geometry |-> box(-1, -1, 0, 0)],   \* inside one cell
       [GEOID |-> "04", geometry |-> box(5, 5, 7, 7)],     \* disjoint
       [GEOID |-> "05", geometry |-> box(0, -1, 3, 1)],    \* half + whole cell
       [GEOID |-> "06", geometry |-> box(3, -1, 5, 3)],    \* touches an edge
       [GEOID |-> "07", geometry |-> box(3, 3, 5, 5)],     \* touches a corner
       [GEOID |-> "08", geometry |-> box(0, 0, 2, 2)] >>   \* a quarter of each

RECURSIVE Increasing(_)
Increasing(s) ==
    \/ Len(s) <= 1
    \/ s[1] < s[2] /\ Increasing(Tail(s))

\* the contents of a shapefile: at most MaxRegions distinct regions
Shapefiles ==
    LET picks == UNION { [1..n -> 1..Len(RegionTable)] : n \in 0..MaxRegions }
    IN  { [k \in 1..Len(p) |-> RegionTable[p[k]]] : p \in {q \in picks : Increasing(q)} }

GeoTypes == {"county", "tract", "state", "County"}

\* a data frame that does not exist yet, and one holding rows; every frame
\* of the function is in geographic coordinates (lines 46, 75 and 108)
NoFrame == [set |-> FALSE, rows |-> <<>>, crs |-> ""]

Frame(rows) == [set |-> TRUE, rows |-> rows, crs |-> "EPSG:4326"]

(***************************************************************************)
(* State.                                                                  *)
(***************************************************************************)
VARIABLES
    var_names,     \* the fields a caller names with the keyword var_names
    geo_type,      \* argument of join_wbgt_to_geography
    max_wbgt,      \* argument: the grid
    shapefile,     \* the regions stored in the Census shapefile
    pc,            \* position of the call
    shp_path,      \* the shapefile chosen for geo_type
    regions_gdf,   \* the shapefile read into memory
    dlat, dlon,    \* the grid resolution
    grid_gdf,      \* the grid cells as polygons with their values
    idx,           \* the region the loop is at
    results,       \* the records collected so far
    result_gdf,    \* the value returned
    err            \* the exception raised

joinVars == <<var_names, geo_type, max_wbgt, shapefile, pc, shp_path, regions_gdf,
              dlat, dlon, grid_gdf, idx, results, result_gdf, err>>


(***************************************************************************)
(* join_wbgt_to_geography, step by step.                                   *)
(***************************************************************************)
InitJoin ==
    /\ var_names = <<>>
    /\ geo_type \in GeoTypes
    /\ max_wbgt \in Grids
    /\ shapefile \in Shapefiles
    /\ pc = "start"
    /\ shp_path = ""
    /\ regions_gdf = NoFrame
    /\ dlat = -1
    /\ dlon = -1
    /\ grid_gdf = NoFrame
    /\ idx = 0
    /\ results = <<>>
    /\ result_gdf = NoFrame
    /\ err = ""

\* ShapefileFor with an else branch that falls back to the county file
ShapefileForCoerced(g) ==
    IF g = "tract" THEN "cb_2023_us_tract_5m.shp"
    ELSE "cb_2023_us_county_5m.shp"

\* lines 34-39: the shapefile of the geography type; "" stands for the
\* ValueError of the else branch
ShapefileFor(g) ==
    IF g = "county" THEN "cb_2023_us_county_5m.shp"
    ELSE IF g = "tract" THEN "cb_2023_us_tract_5m.shp"
    ELSE ""

\* line 7, the signature (max_wbgt, geo_type="county"): a call that passes
\* any other keyword is refused with a TypeError before the body runs
BindArguments ==
    /\ pc = "call"
    /\ IF var_names = <<>>
       THEN /\ pc' = "start"
            /\ err' = err
       ELSE /\ pc' = "error"
            /\ err' = "TypeError"
    /\ UNCHANGED <<var_names, geo_type, max_wbgt, shapefile, shp_path,
                   regions_gdf, dlat, dlon, grid_gdf, idx, results, result_gdf>>

SelectShapefile ==
    /\ pc = "start"
    /\ IF ShapefileFor(geo_type) # ""
       THEN /\ shp_path' = ShapefileFor(geo_type)
            /\ pc' = "read"
            /\ err' = err
       ELSE /\ shp_path' = shp_path
            /\ pc' = "error"
            /\ err' = "ValueError"
    /\ UNCHANGED <<var_names, geo_type, max_wbgt, shapefile, regions_gdf, dlat, dlon,
                   grid_gdf, idx, results, result_gdf>>

\* lines 42-46: read the shapefile and bring it to EPSG:4326
ReadShapefile ==
    /\ pc = "read"
    /\ regions_gdf' = Frame(shapefile)
    /\ pc' = "resolution"
    /\ UNCHANGED <<var_names, geo_type, max_wbgt, shapefile, shp_path, dlat, dlon,
                   grid_gdf, idx, results, result_gdf, err>>

\* lines 52-64: the grid resolution from the first two values of each axis
GridResolution ==
    /\ pc = "resolution"
    /\ LET lats == max_wbgt.latitude
           lons == max_wbgt.longitude
       IN  IF Len(lats) > 1
           THEN IF Len(lons) > 1
                THEN /\ dlat' = Abs(lats[2] - lats[1])
                     /\ dlon' = Abs(lons[2] - lons[1])
                     /\ pc' = "cells"
                     /\ err' = err
                ELSE /\ dlat' = Abs(lats[2] - lats[1])
                     /\ dlon' = dlon
                     /\ pc' = "error"
                     /\ err' = "ValueError"
           ELSE /\ dlat' = dlat
                /\ dlon' = dlon
                /\ pc' = "error"
                /\ err' = "ValueError"
    /\ UNCHANGED <<var_names, geo_type, max_wbgt, shapefile, shp_path, regions_gdf,
                   grid_gdf, idx, results, result_gdf>>

\* cell_poly with the full spacing on either side of the centre
cell_polyFullSpacing(lat, lon, dla, dlo) ==
    box(2 * lon - 2 * dlo, 2 * lat - 2 * dla, 2 * lon + 2 * dlo, 2 * lat + 2 * dla)

\* line 71: the rectangle of the cell centred at (lat, lon); in half degrees
\* the centre is (2 lon, 2 lat) and the half extent is (dlon, dlat)
cell_poly(lat, lon, dla, dlo) ==
    box(2 * lon - dlo, 2 * lat - dla, 2 * lon + dlo, 2 * lat + dla)

\* lines 66-75: one polygon per grid cell, row by row, with the cell's value
GridCells(grid, dla, dlo) ==
    LET lats == grid.latitude
        lons == grid.longitude
        m == Len(lons)
    IN  [k \in 1..(Len(lats) * m) |->
            LET i == ((k - 1) \div m) + 1
                j == ((k - 1) % m) + 1
            IN  [wbgt |-> Flt(grid.values[i][j]),
                 geometry |-> cell_poly(lats[i], lons[j], dla, dlo)]]

MaterializeCells ==
    /\ pc = "cells"
    /\ grid_gdf' = Frame(GridCells(max_wbgt, dlat, dlon))
    /\ idx' = 1
    /\ pc' = "loop"
    /\ UNCHANGED <<var_names, geo_type, max_wbgt, shapefile, shp_path, regions_gdf,
                   dlat, dlon, results, result_gdf, err>>

\* lines 85-86: the cells whose rectangle intersects the region
IntersectingCells(cells, region_geom) ==
    SelectSeq(cells, LAMBDA c : intersects(c.geometry, region_geom))

\* CellWeight counting every intersecting cell once, whatever its share
CellWeightUnweighted(cell, region_geom) == Flt(1)

\* line 95: the fraction of the cell that lies inside the region
CellWeight(cell, region_geom) ==
    Frac(area(intersection(cell.geometry, region_geom)), area(cell.geometry))

\* lines 90-97: the sums over the intersecting cells, in the order of the frame
RECURSIVE Accumulate(_, _, _, _)
Accumulate(cells, region_geom, weighted_sum, total_weight) ==
    IF cells = <<>>
    THEN [weighted_sum |-> weighted_sum, total_weight |-> total_weight]
    ELSE LET cell == Head(cells)
             weight == CellWeight(cell, region_geom)
         IN  Accumulate(Tail(cells), region_geom,
                        FAdd(weighted_sum, FMul(cell.wbgt, weight)),
                        FAdd(total_weight, weight))

\* line 99
RegionWbgt(sums) ==
    IF FPositive(sums.total_weight)
    THEN FDiv(sums.weighted_sum, sums.total_weight)
    ELSE NaN

\* the sums as the regions before region k leave them when they are set to
\* zero once, before the loop over the regions
RECURSIVE SumsThrough(_)
SumsThrough(k) ==
    IF k = 0
    THEN [weighted_sum |-> Flt(0), total_weight |-> Flt(0)]
    ELSE LET geom == regions_gdf.rows[k].geometry
             before == SumsThrough(k - 1)
         IN  Accumulate(IntersectingCells(grid_gdf.rows, geom), geom,
                        before.weighted_sum, before.total_weight)

\* StartSums with the sums carried over from the regions processed before
StartSumsCarried == SumsThrough(idx - 1)

\* lines 90-91: every region starts its sums at zero
StartSums == [weighted_sum |-> Flt(0), total_weight |-> Flt(0)]

\* RegionRecords without the continue of line 88: a region that no cell
\* intersects gets a record too
RegionRecordsNoSkip(region, intersecting_cells) ==
    << [region_id |-> region.GEOID,
        wbgt |-> RegionWbgt(Accumulate(intersecting_cells,
                     region.geometry, StartSums.weighted_sum,
                     StartSums.total_weight)),
        geometry |-> region.geometry] >>

\* lines 87-106: what one iteration appends to results: nothing for a
\* region that no cell intersects (continue), else the region's record
RegionRecords(region, intersecting_cells) ==
    IF intersecting_cells = <<>>
    THEN <<>>
    ELSE << [region_id |-> region.GEOID,
             wbgt |-> RegionWbgt(Accumulate(intersecting_cells,
                          region.geometry, StartSums.weighted_sum,
                     StartSums.total_weight)),
             geometry |-> region.geometry] >>

\* lines 82-106: one iteration of the loop over the regions
ProcessRegion ==
    /\ pc = "loop"
    /\ idx <= Len(regions_gdf.rows)
    /\ LET region == regions_gdf.rows[idx]
           intersecting_cells ==
               IntersectingCells(grid_gdf.rows, region.geometry)
       IN  IF /\ intersecting_cells # <<>>
              /\ area(Head(intersecting_cells).geometry) = 0
           THEN \* line 95 divides by the area of a cell without extent
                /\ pc' = "error"
                /\ err' = "ZeroDivisionError"
                /\ UNCHANGED <<results, idx>>
           ELSE /\ results' = results \o RegionRecords(region, intersecting_cells)
                /\ idx' = idx + 1
                /\ UNCHANGED <<pc, err>>
    /\ UNCHANGED <<var_names, geo_type, max_wbgt, shapefile, shp_path, regions_gdf,
                   dlat, dlon, grid_gdf, result_gdf>>

\* lines 108-109: the records as a data frame
ReturnResult ==
    /\ pc = "loop"
    /\ idx > Len(regions_gdf.rows)
    /\ result_gdf' = Frame(results)
    /\ pc' = "done"
    /\ UNCHANGED <<var_names, geo_type, max_wbgt, shapefile, shp_path, regions_gdf,
                   dlat, dlon, grid_gdf, idx, results, err>>



(***************************************************************************)
(* The gap filler: fill_nan_with_nearest_2d.  A field is a sequence of     *)
(* rows of floating point values; rows and columns are counted from 0 as   *)
(* numpy counts them, so arr[r][c] of the code is arr[r + 1][c + 1] here.  *)
(***************************************************************************)
FieldValues == {NaN, Flt(1), Flt(2)}

Fields ==
    UNION { [1..r -> [1..c -> FieldValues]] : r \in 1..MaxRows, c \in 1..MaxCols }

NRows(a) == Len(a)

NCols(a) == Len(a[1])

\* isnan marking the cells that hold a number
isnanInverted(a) == [r \in 1..NRows(a) |-> [c \in 1..NCols(a) |-> ~IsNaN(a[r][c])]]

\* line 155: mask = np.isnan(arr)
isnan(a) == [r \in 1..NRows(a) |-> [c \in 1..NCols(a) |-> IsNaN(a[r][c])]]

\* line 156: mask.any()
any(mask) == \E r \in DOMAIN mask : \E c \in DOMAIN mask[r] : mask[r][c]

\* At reading the element before the one asked for, in row-major order
\* (a flat index that is off by one)
AtFlatBefore(a, r, c) ==
    LET k == (IF r < 0 THEN r + NRows(a) ELSE r) * NCols(a)
             + (IF c < 0 THEN c + NCols(a) ELSE c)
        j == (k - 1) % (NRows(a) * NCols(a))
    IN  a[(j \div NCols(a)) + 1][(j % NCols(a)) + 1]

\* numpy indexing a[r, c], a negative index counting from the end
At(a, r, c) ==
    a[(IF r < 0 THEN r + NRows(a) ELSE r) + 1][(IF c < 0 THEN c + NCols(a) ELSE c) + 1]

(***************************************************************************)
(* line 161: ndimage.distance_transform_edt(mask, return_indices=True):    *)
(* for every cell the index of the nearest cell where mask is False.  The  *)
(* library computes it one axis after the other: along the rows of each    *)
(* column, then along the columns of each row over the lower envelope of   *)
(* the column results.  A line without any such cell keeps -1 in the row   *)
(* index and the 0 the index array was created with in the column index.   *)
(***************************************************************************)
\* NearestInColumn taking the first unmasked row of the column, near or not
NearestInColumnFirst(mask, r, c) ==
    LET V == { q \in 0..(Len(mask) - 1) : ~mask[q + 1][c + 1] }
    IN  IF V = {} THEN -1
        ELSE CHOOSE q \in V : \A p \in V : q <= p

\* first axis: the nearest unmasked row of column c seen from row r, the
\* lower row when two are equally near, -1 when the column has none
NearestInColumn(mask, r, c) ==
    LET V == { q \in 0..(Len(mask) - 1) : ~mask[q + 1][c + 1] }
    IN  IF V = {} THEN -1
        ELSE CHOOSE q \in V :
                \A p \in V : \/ Abs(q - r) < Abs(p - r)
                             \/ Abs(q - r) = Abs(p - r) /\ q <= p

\* squared distance from cell (r, ii) to the site of column k
SiteDist(f, r, k, ii) == (f[k + 1] - r) * (f[k + 1] - r) + (k - ii) * (k - ii)

\* the site v between u and w has no cell of row r nearest to it
Hidden(f, r, u, v, w) ==
    LET a == v - u
        b == w - v
        c == a + b
        uR == (f[u + 1] - r) * (f[u + 1] - r)
        vR == (f[v + 1] - r) * (f[v + 1] - r)
        wR == (f[w + 1] - r) * (f[w + 1] - r)
    IN  c * vR - b * uR - a * wR - a * b * c > 0

RECURSIVE PopHidden(_, _, _, _)
PopHidden(f, r, g, w) ==
    IF Len(g) >= 2 /\ Hidden(f, r, g[Len(g) - 1], g[Len(g)], w)
    THEN PopHidden(f, r, SubSeq(g, 1, Len(g) - 1), w)
    ELSE g

\* the columns whose site is nearest to some cell of row r, left to right
RECURSIVE Envelope(_, _, _, _)
Envelope(f, r, ii, g) ==
    IF ii = Len(f) THEN g
    ELSE IF f[ii + 1] >= 0
    THEN Envelope(f, r, ii + 1, Append(PopHidden(f, r, g, ii), ii))
    ELSE Envelope(f, r, ii + 1, g)

RECURSIVE Advance(_, _, _, _, _)
Advance(f, r, g, l, ii) ==
    IF l < Len(g) /\ SiteDist(f, r, g[l], ii) > SiteDist(f, r, g[l + 1], ii)
    THEN Advance(f, r, g, l + 1, ii)
    ELSE l

RECURSIVE ScanRow(_, _, _, _, _, _)
ScanRow(f, r, g, l, ii, out) ==
    IF ii = Len(f) THEN out
    ELSE LET k == Advance(f, r, g, l, ii)
         IN  ScanRow(f, r, g, k, ii + 1, Append(out, <<f[g[k] + 1], g[k]>>))

\* the indices <<row, column>> of row r
RowIndices(mask, r) ==
    LET f == [c \in 1..Len(mask[1]) |-> NearestInColumn(mask, r, c - 1)]
        g == Envelope(f, r, 0, <<>>)
    IN  IF g = <<>>
        THEN [c \in 1..Len(f) |-> <<-1, 0>>]
        ELSE ScanRow(f, r, g, 1, 0, <<>>)

\* distance_transform_edt handed the complement of the mask
distance_transform_edtOfComplement(mask) ==
    LET inv == [r \in DOMAIN mask |-> [c \in DOMAIN mask[r] |-> ~mask[r][c]]]
    IN  [r \in 1..Len(inv) |-> RowIndices(inv, r - 1)]

distance_transform_edt(mask) == [r \in 1..Len(mask) |-> RowIndices(mask, r - 1)]

\* lines 151-165
fill_nan_with_nearest_2d(a) ==
    LET mask == isnan(a)
    IN  IF ~any(mask) THEN a
        ELSE LET indices == distance_transform_edt(mask)
             IN  [r \in 1..NRows(a) |-> [c \in 1..NCols(a) |->
                    IF mask[r][c]
                    THEN At(a, indices[r][c][1], indices[r][c][2])
                    ELSE a[r][c]]]

VARIABLES
    arr,        \* the field handed to the gap filler
    filled,     \* what the gap filler returned for arr
    refilled,   \* what it returned for its own result
    fpc,        \* position of the caller
    ferr        \* the exception the gap filler raised

fillVars == <<arr, filled, refilled, fpc, ferr>>

InitFill ==
    /\ arr \in Fields
    /\ filled = NoFrame
    /\ refilled = NoFrame
    /\ fpc = "start"
    /\ ferr = ""

\* a call of fill_nan_with_nearest_2d on the input field
Fill ==
    /\ fpc = "start"
    /\ filled' = Frame(fill_nan_with_nearest_2d(arr))
    /\ fpc' = "filled"
    /\ UNCHANGED <<arr, refilled, ferr>>

\* a call of fill_nan_with_nearest_2d on the field it returned
FillAgain ==
    /\ fpc = "filled"
    /\ refilled' = Frame(fill_nan_with_nearest_2d(filled.rows))
    /\ fpc' = "refilled"
    /\ UNCHANGED <<arr, filled, ferr>>

(***************************************************************************)
(* fill_mrt_data: the gap filler applied to the variable of a data set,    *)
(* slice by slice when the variable has a time dimension.  A data set is   *)
(* has_time, the labels of valid_time in their order, and one field per    *)
(* label (one field in all when there is no time dimension).               *)
(***************************************************************************)
MaxTimes == 2

SliceRows == { <<NaN, NaN>>, <<NaN, Flt(1)>>, <<Flt(2), NaN>>, <<Flt(1), Flt(2)>> }

SliceFields == { <<r1, r2>> : r1 \in SliceRows, r2 \in SliceRows }

TimeValues == 0..MaxTimes

\* the labels of a time axis: distinct, in the order of the axis
TimeAxes ==
    UNION { { s \in [1..n -> TimeValues] : Increasing(s) } : n \in 1..MaxTimes }

Datasets ==
    { [has_time |-> FALSE, valid_time |-> <<>>, mrt |-> <<f>>] : f \in SliceFields }
    \cup
    UNION { { [has_time |-> TRUE, valid_time |-> ts, mrt |-> fs] :
                fs \in [1..Len(ts) -> SliceFields] } : ts \in TimeAxes }

\* no data set yet
NoDataset == [set |-> FALSE, has_time |-> FALSE, valid_time |-> <<>>, mrt |-> <<>>]

VARIABLES
    ds,             \* argument of fill_mrt_data
    t_idx,          \* the label the loop over valid_time is at
    filled_slices,  \* the filled slices collected so far
    ds_filled,      \* the value returned
    mpc             \* position of the call

mrtVars == <<ds, t_idx, filled_slices, ds_filled, mpc>>

InitMrt ==
    /\ ds \in Datasets
    /\ t_idx = 0
    /\ filled_slices = <<>>
    /\ ds_filled = NoDataset
    /\ mpc = "start"

\* lines 179-183: take the variable and look for the time dimension
SelectVariable ==
    /\ mpc = "start"
    /\ IF ds.has_time
       THEN /\ mpc' = "loop"
            /\ t_idx' = 1
       ELSE /\ mpc' = "direct"
            /\ t_idx' = t_idx
    /\ UNCHANGED <<ds, filled_slices, ds_filled>>

\* sel reading the slice at the head of the axis, whatever the label
selFirst(da, t) == da.mrt[1]

\* line 186, da.sel(valid_time=t): the slice stored under the label t
sel(da, t) ==
    da.mrt[CHOOSE k \in 1..Len(da.valid_time) : da.valid_time[k] = t]

\* lines 184-197: one iteration of the loop over the labels
FillSlice ==
    /\ mpc = "loop"
    /\ t_idx <= Len(ds.valid_time)
    /\ LET t == ds.valid_time[t_idx]
           filled_arr == fill_nan_with_nearest_2d(sel(ds, t))
       IN  filled_slices' =
               Append(filled_slices, [valid_time |-> t, values |-> filled_arr])
    /\ t_idx' = t_idx + 1
    /\ UNCHANGED <<ds, ds_filled, mpc>>

\* lines 199, 209-211: concatenate the slices along valid_time and put the
\* result into a copy of the data set
ConcatSlices ==
    /\ mpc = "loop"
    /\ t_idx > Len(ds.valid_time)
    /\ ds_filled' =
           [set |-> TRUE,
            has_time |-> TRUE,
            valid_time |-> [k \in 1..Len(filled_slices) |->
                               filled_slices[k].valid_time],
            mrt |-> [k \in 1..Len(filled_slices) |-> filled_slices[k].values]]
    /\ mpc' = "done"
    /\ UNCHANGED <<ds, t_idx, filled_slices>>

\* lines 200-206, 209-211: without a time dimension the field is filled as
\* it is
FillDirect ==
    /\ mpc = "direct"
    /\ ds_filled' =
           [set |-> TRUE,
            has_time |-> FALSE,
            valid_time |-> <<>>,
            mrt |-> <<fill_nan_with_nearest_2d(ds.mrt[1])>>]
    /\ mpc' = "done"
    /\ UNCHANGED <<ds, t_idx, filled_slices>>

(***************************************************************************)
(* compute_daily_and_max_wbgt.  thermofeel.calculate_wbgt is a library     *)
(* function applied cell by cell; its values, in Kelvin, are given per     *)
(* time step and cell.                                                     *)
(***************************************************************************)
NCells == 2

KelvinValues == { NaN, Flt(290), Flt(300), Frac(61063, 200) }

\* line 40: the offset between Kelvin and degrees Celsius
KelvinOffset == Frac(27315, 100)

\* x < y for two values that are not NaN
FLess(x, y) == x[1] * y[2] < y[1] * x[2]

\* line 40: wbgt - 273.15, cell by cell
ToCelsius(w) ==
    [t \in 1..Len(w) |->
        [c \in 1..Len(w[t]) |-> FAdd(w[t][c], <<-KelvinOffset[1], KelvinOffset[2]>>)]]

\* line 43, max(dim='valid_time'): per cell the largest value over the time
\* steps, the missing ones skipped; NaN for a cell missing at every step
RECURSIVE MaxUpTo(_, _, _)
MaxUpTo(w, c, n) ==
    IF n = 0 THEN NaN
    ELSE LET rest == MaxUpTo(w, c, n - 1)
             x == w[n][c]
         IN  IF IsNaN(x) THEN rest
             ELSE IF IsNaN(rest) THEN x
             ELSE IF FLess(rest, x) THEN x ELSE rest

MaxOverTime(w) == [c \in 1..Len(w[1]) |-> MaxUpTo(w, c, Len(w))]

VARIABLES
    wbgt,        \* what apply_ufunc(thermofeel.calculate_wbgt, ...) gives
    daily_wbgt,  \* first value returned
    wbgt_max,    \* second value returned
    kpc          \* position of the call

computeVars == <<wbgt, daily_wbgt, wbgt_max, kpc>>

InitCompute ==
    /\ wbgt \in UNION { [1..n -> [1..NCells -> KelvinValues]] : n \in 1..MaxTimes }
    /\ daily_wbgt = <<>>
    /\ wbgt_max = <<>>
    /\ kpc = "start"

\* lines 39-45
ComputeDailyAndMax ==
    /\ kpc = "start"
    /\ LET wbgt_c == ToCelsius(wbgt)
       IN  /\ wbgt_max' = MaxOverTime(wbgt_c)
           /\ daily_wbgt' = wbgt
    /\ kpc' = "done"
    /\ UNCHANGED wbgt

(***************************************************************************)
(* get_wbgt: the bounding box, the download, the computation and the       *)
(* dispatch on output_type, with the operations the call has started.      *)
(***************************************************************************)
GeoLimits == { "nation", "Nation", "state", "county", "tract", "region" }

OutputTypes == { "grid", "Grid", "counties", "tracts", "blocks" }

\* str.lower on the strings of the model
lower(s) ==
    CASE s = "Nation" -> "nation"
      [] s = "Grid" -> "grid"
      [] OTHER -> s

VARIABLES
    geo_limit,    \* argument of get_wbgt
    output_type,  \* argument of get_wbgt
    max,          \* argument of get_wbgt
    remote,       \* whether the boundary service and the data store answer
    started,      \* the operations the call has started
    returns,      \* what the call returns
    cpc,          \* position of the call
    cerr          \* the exception raised

coreVars == <<geo_limit, output_type, max, remote, started, returns, cpc, cerr>>

InitCore ==
    /\ geo_limit \in GeoLimits
    /\ output_type \in OutputTypes
    /\ max \in BOOLEAN
    /\ remote \in [census : BOOLEAN, cds : BOOLEAN]
    /\ started = {}
    /\ returns = ""
    /\ cpc = "bbox"
    /\ cerr = ""

\* lines 32-38: the bounding box, fixed for the nation, looked up at the
\* Census service for a state, county or tract
BoundingBox ==
    /\ cpc = "bbox"
    /\ IF lower(geo_limit) = "nation"
       THEN /\ cpc' = "download"
            /\ UNCHANGED <<started, cerr>>
       ELSE IF lower(geo_limit) \in {"state", "county", "tract"}
       THEN /\ started' = started \cup {"lookup"}
            /\ IF remote.census
               THEN /\ cpc' = "download"
                    /\ cerr' = cerr
               ELSE /\ cpc' = "error"
                    /\ cerr' = "LookupFailed"
       ELSE /\ cpc' = "error"
            /\ cerr' = "ValueError"
            /\ started' = started
    /\ UNCHANGED <<geo_limit, output_type, max, remote, returns>>

\* line 41
DownloadMonth ==
    /\ cpc = "download"
    /\ started' = started \cup {"download"}
    /\ IF remote.cds
       THEN /\ cpc' = "compute"
            /\ cerr' = cerr
       ELSE /\ cpc' = "error"
            /\ cerr' = "DownloadFailed"
    /\ UNCHANGED <<geo_limit, output_type, max, remote, returns>>

\* line 44
ComputeWbgt ==
    /\ cpc = "compute"
    /\ started' = started \cup {"compute"}
    /\ cpc' = "dispatch"
    /\ UNCHANGED <<geo_limit, output_type, max, remote, returns, cerr>>

\* lines 47-57
Dispatch ==
    /\ cpc = "dispatch"
    /\ LET ot == lower(output_type)
       IN  IF ot = "grid"
           THEN /\ returns' = IF max THEN "max_wbgt" ELSE "daily_wbgt"
                /\ cpc' = "done"
                /\ UNCHANGED <<started, cerr>>
           ELSE IF ot \in {"counties", "tracts"}
           THEN /\ started' = started \cup {"join"}
                /\ returns' = IF ot = "counties" THEN "wbgt_counties"
                              ELSE "wbgt_tracts"
                /\ cpc' = "done"
                /\ cerr' = cerr
           ELSE /\ cpc' = "error"
                /\ cerr' = "ValueError"
                /\ UNCHANGED <<started, returns>>
    /\ UNCHANGED <<geo_limit, output_type, max, remote>>

(***************************************************************************)
(* download_era5_data and download_derived_utci_data: the temporary file,  *)
(* the extraction directory and the points at which the call can raise.    *)
(***************************************************************************)
VARIABLES
    func,             \* which of the two functions is called
    answer,           \* how the retrieval, the archive and the readers turn out
    dpc,              \* position of the call
    result_filename,  \* whether the temporary download file exists
    extract_dir,      \* whether the temporary extraction directory exists
    derr              \* the exception raised

downloadVars == <<func, answer, dpc, result_filename, extract_dir, derr>>

InitDownload ==
    /\ func \in {"download_era5_data", "download_derived_utci_data"}
    /\ answer \in [retrieve : BOOLEAN, zip : BOOLEAN, archive : BOOLEAN,
                   cfgrib : BOOLEAN, netcdf4 : BOOLEAN]
    /\ dpc = "start"
    /\ result_filename = FALSE
    /\ extract_dir = FALSE
    /\ derr = ""

\* lines 35-37 and 112-114: NamedTemporaryFile(delete=False)
CreateTempFile ==
    /\ dpc = "start"
    /\ result_filename' = TRUE
    /\ dpc' = "retrieve"
    /\ UNCHANGED <<func, answer, extract_dir, derr>>

\* lines 39-57 and 126: the request to the data store
Retrieve ==
    /\ dpc = "retrieve"
    /\ IF answer.retrieve
       THEN /\ dpc' = "header"
            /\ derr' = derr
       ELSE /\ dpc' = "raised"
            /\ derr' = "RetrieveFailed"
    /\ UNCHANGED <<func, answer, result_filename, extract_dir>>

\* lines 59-72 and 129-140: an archive is unpacked into a new directory
ExtractArchive ==
    /\ dpc = "header"
    /\ IF answer.zip
       THEN /\ extract_dir' = TRUE
            /\ IF answer.archive
               THEN /\ dpc' = "open"
                    /\ derr' = derr
               ELSE /\ dpc' = "raised"
                    /\ derr' = "BadZipFile"
       ELSE /\ dpc' = "open"
            /\ UNCHANGED <<extract_dir, derr>>
    /\ UNCHANGED <<func, answer, result_filename>>

\* lines 74-79: cfgrib first, netcdf4 when it fails; lines 142-143: netcdf4
OpenDataset ==
    /\ dpc = "open"
    /\ LET read == IF func = "download_era5_data"
                   THEN answer.cfgrib \/ answer.netcdf4
                   ELSE answer.netcdf4
       IN  IF read
           THEN /\ dpc' = "cleanup"
                /\ derr' = derr
           ELSE /\ dpc' = "raised"
                /\ derr' = "ReadFailed"
    /\ UNCHANGED <<func, answer, result_filename, extract_dir>>

\* lines 81-86 and 144-149: remove the file and the directory, return
CleanUp ==
    /\ dpc = "cleanup"
    /\ result_filename' = FALSE
    /\ extract_dir' = FALSE
    /\ dpc' = "returned"
    /\ UNCHANGED <<func, answer, derr>>

(***************************************************************************)
(* The functions are examined one at a time: while one runs, the state of  *)
(* the others is at rest.                                                  *)
(***************************************************************************)
vars == <<joinVars, fillVars, mrtVars, computeVars, coreVars, downloadVars>>

\* the aggregator at rest
JoinIdle ==
    /\ var_names = <<>>
    /\ geo_type = "county"
    /\ max_wbgt = [latitude |-> <<0, 1>>, longitude |-> <<0, 1>>,
                   values |-> <<<<10, 20>>, <<30, 40>>>>]
    /\ shapefile = <<>>
    /\ pc = "idle"
    /\ shp_path = ""
    /\ regions_gdf = NoFrame
    /\ dlat = -1
    /\ dlon = -1
    /\ grid_gdf = NoFrame
    /\ idx = 0
    /\ results = <<>>
    /\ result_gdf = NoFrame
    /\ err = ""

\* the gap filler at rest
FillIdle ==
    /\ arr = <<<<Flt(1)>>>>
    /\ filled = NoFrame
    /\ refilled = NoFrame
    /\ fpc = "idle"
    /\ ferr = ""

\* fill_mrt_data at rest
MrtIdle ==
    /\ ds = NoDataset
    /\ t_idx = 0
    /\ filled_slices = <<>>
    /\ ds_filled = NoDataset
    /\ mpc = "idle"

\* compute_daily_and_max_wbgt at rest
ComputeIdle ==
    /\ wbgt = <<>>
    /\ daily_wbgt = <<>>
    /\ wbgt_max = <<>>
    /\ kpc = "idle"

\* get_wbgt at rest
CoreIdle ==
    /\ geo_limit = "nation"
    /\ output_type = "grid"
    /\ max = TRUE
    /\ remote = [census |-> TRUE, cds |-> TRUE]
    /\ started = {}
    /\ returns = ""
    /\ cpc = "idle"
    /\ cerr = ""

\* the download functions at rest
DownloadIdle ==
    /\ func = "download_era5_data"
    /\ answer = [retrieve |-> TRUE, zip |-> FALSE, archive |-> TRUE,
                 cfgrib |-> TRUE, netcdf4 |-> TRUE]
    /\ dpc = "idle"
    /\ result_filename = FALSE
    /\ extract_dir = FALSE
    /\ derr = ""

notJoin == <<fillVars, mrtVars, computeVars, coreVars, downloadVars>>

notFill == <<joinVars, mrtVars, computeVars, coreVars, downloadVars>>

notMrt == <<joinVars, fillVars, computeVars, coreVars, downloadVars>>

notCompute == <<joinVars, fillVars, mrtVars, coreVars, downloadVars>>

notCore == <<joinVars, fillVars, mrtVars, computeVars, downloadVars>>

notDownload == <<joinVars, fillVars, mrtVars, computeVars, coreVars>>

\* the gap filler on one field
NextFill ==
    \/ Fill /\ UNCHANGED notFill
    \/ FillAgain /\ UNCHANGED notFill

FillInit ==
    InitFill /\ JoinIdle /\ MrtIdle /\ ComputeIdle /\ CoreIdle /\ DownloadIdle

SpecFill == FillInit /\ [][NextFill]_vars

\* the aggregator called as get_wbgt calls it, with its two parameters
NextJoin ==
    \/ SelectShapefile /\ UNCHANGED notJoin
    \/ ReadShapefile /\ UNCHANGED notJoin
    \/ GridResolution /\ UNCHANGED notJoin
    \/ MaterializeCells /\ UNCHANGED notJoin
    \/ ProcessRegion /\ UNCHANGED notJoin
    \/ ReturnResult /\ UNCHANGED notJoin

JoinInit ==
    InitJoin /\ FillIdle /\ MrtIdle /\ ComputeIdle /\ CoreIdle /\ DownloadIdle

SpecJoin == JoinInit /\ [][NextJoin]_vars

\* the aggregator called as tests/hottest_day.py calls it (lines 50-62): a
\* data set of several fields, geo_type and the keyword var_names
FieldNameLists == { <<>>, <<"wbgt">>, <<"wbgt", "mrt">> }

FieldDatasets ==
    { [latitude |-> g.latitude, longitude |-> g.longitude,
       values |-> g.values, mrt |-> m] :
         g \in GridsOver(<<0, 1>>, <<0, 1>>, {10, 20}),
         m \in { <<<<30, 30>>, <<30, 30>>>>, <<<<10, 20>>, <<30, 40>>>> } }

InitCall ==
    /\ var_names \in FieldNameLists
    /\ geo_type \in {"county", "tract"}
    /\ max_wbgt \in FieldDatasets
    /\ shapefile \in Shapefiles
    /\ pc = "call"
    /\ shp_path = ""
    /\ regions_gdf = NoFrame
    /\ dlat = -1
    /\ dlon = -1
    /\ grid_gdf = NoFrame
    /\ idx = 0
    /\ results = <<>>
    /\ result_gdf = NoFrame
    /\ err = ""

NextCall ==
    \/ BindArguments /\ UNCHANGED notJoin
    \/ NextJoin

CallInit ==
    InitCall /\ FillIdle /\ MrtIdle /\ ComputeIdle /\ CoreIdle /\ DownloadIdle

SpecCall == CallInit /\ [][NextCall]_vars

\* the aggregator on shapefiles that store their regions in any order
Injective(s) == \A i, j \in 1..Len(s) : s[i] = s[j] => i = j

ShapefilesAnyOrder ==
    LET picks == UNION { [1..n -> 1..Len(RegionTable)] : n \in 0..MaxRegions }
    IN  { [k \in 1..Len(p) |-> RegionTable[p[k]]] : p \in {q \in picks : Injective(q)} }

InitOrder ==
    /\ var_names = <<>>
    /\ geo_type \in {"county", "tract"}
    /\ max_wbgt \in GridsOver(<<0, 1>>, <<0, 1>>, {10, 40})
    /\ shapefile \in ShapefilesAnyOrder
    /\ pc = "start"
    /\ shp_path = ""
    /\ regions_gdf = NoFrame
    /\ dlat = -1
    /\ dlon = -1
    /\ grid_gdf = NoFrame
    /\ idx = 0
    /\ results = <<>>
    /\ result_gdf = NoFrame
    /\ err = ""

OrderInit ==
    InitOrder /\ FillIdle /\ MrtIdle /\ ComputeIdle /\ CoreIdle /\ DownloadIdle

SpecOrder == OrderInit /\ [][NextJoin]_vars

\* fill_mrt_data on one data set
NextMrt ==
    \/ SelectVariable /\ UNCHANGED notMrt
    \/ FillSlice /\ UNCHANGED notMrt
    \/ ConcatSlices /\ UNCHANGED notMrt
    \/ FillDirect /\ UNCHANGED notMrt

MrtInit ==
    InitMrt /\ JoinIdle /\ FillIdle /\ ComputeIdle /\ CoreIdle /\ DownloadIdle

SpecMrt == MrtInit /\ [][NextMrt]_vars

\* compute_daily_and_max_wbgt on one data set
NextCompute ==
    \/ ComputeDailyAndMax /\ UNCHANGED notCompute

ComputeInit ==
    InitCompute /\ JoinIdle /\ FillIdle /\ MrtIdle /\ CoreIdle /\ DownloadIdle

SpecCompute == ComputeInit /\ [][NextCompute]_vars

\* one call of get_wbgt
NextCore ==
    \/ BoundingBox /\ UNCHANGED notCore
    \/ DownloadMonth /\ UNCHANGED notCore
    \/ ComputeWbgt /\ UNCHANGED notCore
    \/ Dispatch /\ UNCHANGED notCore

CoreInit ==
    InitCore /\ JoinIdle /\ FillIdle /\ MrtIdle /\ ComputeIdle /\ DownloadIdle

SpecCore == CoreInit /\ [][NextCore]_vars

\* one call of a download function
NextDownload ==
    \/ CreateTempFile /\ UNCHANGED notDownload
    \/ Retrieve /\ UNCHANGED notDownload
    \/ ExtractArchive /\ UNCHANGED notDownload
    \/ OpenDataset /\ UNCHANGED notDownload
    \/ CleanUp /\ UNCHANGED notDownload

DownloadInit ==
    InitDownload /\ JoinIdle /\ FillIdle /\ MrtIdle /\ ComputeIdle /\ CoreIdle

SpecDownload == DownloadInit /\ [][NextDownload]_vars



(***************************************************************************)
(* The aggregation stated on the inputs: the grid of the data model (cell  *)
(* (i, j) is the rectangle centred at (lat_i, lon_j) whose extent is the   *)
(* spacing of the axes) and the weighted mean over the cells of a region.  *)
(***************************************************************************)
Spacing(axis) == Abs(axis[2] - axis[1])

CellIndex(grid) == (1..Len(grid.latitude)) \X (1..Len(grid.longitude))

\* the rectangle of cell c, in half degrees
CellRect(grid, c) ==
    [minx |-> 2 * grid.longitude[c[2]] - Spacing(grid.longitude),
     miny |-> 2 * grid.latitude[c[1]] - Spacing(grid.latitude),
     maxx |-> 2 * grid.longitude[c[2]] + Spacing(grid.longitude),
     maxy |-> 2 * grid.latitude[c[1]] + Spacing(grid.latitude)]

CellArea(grid) == 4 * Spacing(grid.longitude) * Spacing(grid.latitude)

\* the extent two rectangles have in common along each axis (negative when
\* they are apart)
CommonX(a, b) == Min(a.maxx, b.maxx) - Max(a.minx, b.minx)

CommonY(a, b) == Min(a.maxy, b.maxy) - Max(a.miny, b.miny)

SharePoint(a, b) == CommonX(a, b) >= 0 /\ CommonY(a, b) >= 0

\* the area two rectangles have in common
Overlap(a, b) == IF SharePoint(a, b) THEN CommonX(a, b) * CommonY(a, b) ELSE 0

RECURSIVE Sum(_, _)
Sum(f, S) ==
    IF S = {} THEN 0
    ELSE LET x == CHOOSE y \in S : TRUE
         IN  f[x] + Sum(f, S \ {x})

\* the cells whose rectangle intersects the region
Hits(grid, geom) == { c \in CellIndex(grid) : SharePoint(CellRect(grid, c), geom) }

\* sum of the weights: of the fractions of each cell inside the region
TotalWeight(grid, geom) ==
    Frac(Sum([c \in Hits(grid, geom) |-> Overlap(CellRect(grid, c), geom)],
             Hits(grid, geom)),
         CellArea(grid))

\* sum of cell value times weight
WeightedSum(grid, geom) ==
    Frac(Sum([c \in Hits(grid, geom) |->
                 grid.values[c[1]][c[2]] * Overlap(CellRect(grid, c), geom)],
             Hits(grid, geom)),
         CellArea(grid))

\* sum(cell_value * weight) / sum(weight) in floating point, where 0 / 0 is
\* not a number
WeightedMean(grid, geom) ==
    IF TotalWeight(grid, geom) = Flt(0)
    THEN NaN
    ELSE FDiv(WeightedSum(grid, geom), TotalWeight(grid, geom))

\* the records of the output
Records == { result_gdf.rows[k] : k \in 1..Len(result_gdf.rows) }

DisjointFromGrid(grid, geom) ==
    \A c \in CellIndex(grid) : ~SharePoint(CellRect(grid, c), geom)

ExpectedRecord(grid, region) ==
    [region_id |-> region.GEOID,
     wbgt |-> WeightedMean(grid, region.geometry),
     geometry |-> region.geometry]

\* the grid of the concrete scenarios: centres (0,0), (0,1), (1,0), (1,1)
ScenarioGrid ==
    [latitude |-> <<0, 1>>, longitude |-> <<0, 1>>,
     values |-> <<<<10, 20>>, <<30, 40>>>>]

(***************************************************************************)
(* C1: the value of every region in the output of join_wbgt_to_geography   *)
(* is sum(cell_value * weight) / sum(weight) over the cells whose          *)
(* rectangle intersects the region, the weight of a cell being the         *)
(* fraction of the cell's area inside the region (the division being the   *)
(* floating point one, 0 / 0 giving not-a-number).                         *)
(***************************************************************************)
C1_ValueIsWeightedMean ==
    \A rec \in Records : rec.wbgt = WeightedMean(max_wbgt, rec.geometry)

\* a returned record whose cells weigh 1/2 and 1 and differ in value
C1_Witness ==
    /\ pc = "done"
    /\ \E rec \in Records :
          /\ rec.region_id = "05"
          /\ rec.wbgt[2] = 3
          /\ TotalWeight(max_wbgt, rec.geometry) = Frac(3, 2)

(***************************************************************************)
(* C2: a region whose total weight over the grid is zero (it only touches  *)
(* cell rectangles along an edge or at a point) is left out of the result: *)
(* no record carries a not-a-number value, and every record's region has a *)
(* positive total weight.                                                  *)
(***************************************************************************)
C2_ZeroWeightOmitted ==
    \A rec \in Records :
        /\ ~IsNaN(rec.wbgt)
        /\ FPositive(TotalWeight(max_wbgt, rec.geometry))

(***************************************************************************)
(* C3: a region that shares no point with any cell rectangle leaves no     *)
(* record, does not abort the call, and the records are those of the       *)
(* other regions, each as it would be without the disjoint regions.        *)
(***************************************************************************)
C3_DisjointRegionExcluded ==
    /\ pc = "done" =>
          LET kept == SelectSeq(regions_gdf.rows,
                          LAMBDA r : ~DisjointFromGrid(max_wbgt, r.geometry))
          IN  result_gdf =
                 Frame([k \in 1..Len(kept) |-> ExpectedRecord(max_wbgt, kept[k])])
    /\ (pc = "error" /\ idx >= 1) =>
          ~DisjointFromGrid(max_wbgt, regions_gdf.rows[idx].geometry)

\* a call that returned one record for a file of a disjoint region followed
\* by an overlapping one
C3_Witness ==
    /\ pc = "done"
    /\ Len(regions_gdf.rows) = 2
    /\ regions_gdf.rows[1].GEOID = "04"
    /\ DisjointFromGrid(max_wbgt, regions_gdf.rows[1].geometry)
    /\ Len(result_gdf.rows) = 1
    /\ result_gdf.rows[1].region_id = regions_gdf.rows[2].GEOID

\* the cells that lie inside the region
Covered(grid, geom) ==
    { c \in CellIndex(grid) : Overlap(CellRect(grid, c), geom) = CellArea(grid) }

\* the region is a rectangle made of whole cells
Aligned(grid, geom) ==
    /\ \A c \in CellIndex(grid) :
          Overlap(CellRect(grid, c), geom) \in {0, CellArea(grid)}
    /\ Covered(grid, geom) # {}
    /\ area(geom) = Cardinality(Covered(grid, geom)) * CellArea(grid)

(***************************************************************************)
(* C4: for a rectangular region made of whole cells (every cell is inside  *)
(* it or has no area in common with it) the value is the unweighted mean   *)
(* of the values of the cells inside; on the grid [[10,20],[30,40]] the    *)
(* right half gives 30 and the top half gives 35.                          *)
(***************************************************************************)
C4_AlignedRegionMean ==
    \A rec \in Records :
        /\ Aligned(max_wbgt, rec.geometry) =>
              rec.wbgt = Frac(Sum([c \in Covered(max_wbgt, rec.geometry) |->
                                      max_wbgt.values[c[1]][c[2]]],
                                  Covered(max_wbgt, rec.geometry)),
                              Cardinality(Covered(max_wbgt, rec.geometry)))
        /\ (max_wbgt = ScenarioGrid /\ rec.geometry = box(1, -1, 3, 3)) =>
              rec.wbgt = Flt(30)
        /\ (max_wbgt = ScenarioGrid /\ rec.geometry = box(-1, 1, 3, 3)) =>
              rec.wbgt = Flt(35)

\* the scenario grid aggregated over the right half and the top half
C4_Witness ==
    /\ pc = "done"
    /\ max_wbgt = ScenarioGrid
    /\ Len(result_gdf.rows) = 2
    /\ result_gdf.rows[1].geometry = box(1, -1, 3, 3)
    /\ result_gdf.rows[2].geometry = box(-1, 1, 3, 3)
    /\ Aligned(max_wbgt, result_gdf.rows[1].geometry)
    /\ Aligned(max_wbgt, result_gdf.rows[2].geometry)
    /\ Hits(max_wbgt, box(1, -1, 3, 3)) # Covered(max_wbgt, box(1, -1, 3, 3))

(***************************************************************************)
(* C10: a call with a geography type other than "county" and "tract" ends  *)
(* with ValueError before the region file is read, a cell is materialized  *)
(* or a record is produced, and the type is never replaced by a supported  *)
(* one.                                                                    *)
(***************************************************************************)
C10_UnsupportedGeographyRejected ==
    geo_type \notin {"county", "tract"} =>
        /\ pc \in {"start", "error"}
        /\ pc = "error" => err = "ValueError"
        /\ shp_path = ""
        /\ ~regions_gdf.set
        /\ ~grid_gdf.set
        /\ results = <<>>
        /\ ~result_gdf.set

\* the spelling "County" rejected
C10_Witness ==
    /\ geo_type = "County"
    /\ pc = "error"
    /\ err = "ValueError"


(***************************************************************************)
(* The gap filler stated on its input and output.                          *)
(***************************************************************************)
FieldCells(a) == (1..Len(a)) \X (1..Len(a[1]))

Missing(a) == { p \in FieldCells(a) : IsNaN(a[p[1]][p[2]]) }

Present(a) == FieldCells(a) \ Missing(a)

\* squared Euclidean distance between two grid indices
Dist2(p, q) == (p[1] - q[1]) * (p[1] - q[1]) + (p[2] - q[2]) * (p[2] - q[2])

(***************************************************************************)
(* C5: for a field with at least one cell that is not missing, the result  *)
(* of fill_nan_with_nearest_2d has no missing cell.                        *)
(***************************************************************************)
C5_FillTotality ==
    (filled.set /\ Present(arr) # {}) => Missing(filled.rows) = {}

\* a filled field that had missing cells and cells to fill them from
C5_Witness ==
    /\ fpc = "filled"
    /\ Cardinality(Missing(arr)) >= 2
    /\ Present(arr) # {}
    /\ Missing(filled.rows) = {}

(***************************************************************************)
(* C6: in the result for a field with at least one cell that is not        *)
(* missing, every cell that was missing holds the input value of a cell    *)
(* that is not missing and is, by Euclidean distance of the grid indices,  *)
(* as near as any such cell; every other cell keeps its input value.       *)
(***************************************************************************)
C6_NearestValueCopied ==
    (filled.set /\ Present(arr) # {}) =>
        /\ FieldCells(filled.rows) = FieldCells(arr)
        /\ \A p \in Present(arr) : filled.rows[p[1]][p[2]] = arr[p[1]][p[2]]
        /\ \A p \in Missing(arr) :
              \E q \in Present(arr) :
                  /\ \A t \in Present(arr) : Dist2(p, q) <= Dist2(p, t)
                  /\ filled.rows[p[1]][p[2]] = arr[q[1]][q[2]]

\* the missing cells of the first column each filled from the cell beside
\* it, the two cells of the second column holding different values
C6_Witness ==
    /\ fpc = "filled"
    /\ Len(arr) = 2
    /\ Len(arr[1]) = 2
    /\ Missing(arr) = {<<1, 1>>, <<2, 1>>}
    /\ arr[1][2] # arr[2][2]
    /\ filled.rows[1][1] = arr[1][2]
    /\ filled.rows[2][1] = arr[2][2]

(***************************************************************************)
(* C7: for a field without missing cells fill_nan_with_nearest_2d returns  *)
(* a field equal to the input in every cell.                               *)
(***************************************************************************)
C7_FillNoOpOnClean ==
    (filled.set /\ Missing(arr) = {}) => filled.rows = arr

\* a clean field of two different values returned
C7_Witness ==
    /\ fpc = "filled"
    /\ Missing(arr) = {}
    /\ Len(arr) = 2
    /\ arr[1][1] # arr[2][1]
    /\ filled.rows = arr

(***************************************************************************)
(* C8: filling is idempotent: the gap filler applied to its own result     *)
(* returns that result.                                                    *)
(***************************************************************************)
C8_FillIdempotent ==
    refilled.set => refilled.rows = filled.rows

\* the second application done on the result of a field that had gaps
C8_Witness ==
    /\ fpc = "refilled"
    /\ Missing(arr) # {}
    /\ Present(arr) # {}
    /\ filled.rows # arr
    /\ refilled.rows = filled.rows

(***************************************************************************)
(* C9: for a field in which every cell is missing the gap filler reports   *)
(* UnfillableFieldError and returns no field.                              *)
(***************************************************************************)
C9_AllMissingRaises ==
    (fpc # "start" /\ Present(arr) = {}) =>
        /\ ferr = "UnfillableFieldError"
        /\ ~filled.set

\* an axis with fewer than two distinct values
FlatAxis(axis) == Cardinality({ axis[k] : k \in 1..Len(axis) }) < 2

(***************************************************************************)
(* C11: for a grid whose latitude or longitude axis has fewer than two     *)
(* distinct values (one value, or several equal values and so a cell       *)
(* spacing of zero) join_wbgt_to_geography never returns and collects no   *)
(* record: the call ends in an error.                                      *)
(***************************************************************************)
C11_FlatAxisRejected ==
    (FlatAxis(max_wbgt.latitude) \/ FlatAxis(max_wbgt.longitude)) =>
        /\ pc # "done"
        /\ results = <<>>
        /\ ~result_gdf.set

\* planar equal-area reference systems (Albers for the United States,
\* cylindrical equal area)
EqualAreaCRS == { "EPSG:5070", "ESRI:102003", "EPSG:6933" }

(***************************************************************************)
(* C12: whenever join_wbgt_to_geography has computed the weights of a      *)
(* record, the cell rectangles and the region polygons whose areas it took *)
(* are in a planar equal-area reference system, not in geographic degrees. *)
(***************************************************************************)
C12_AreasInEqualAreaCRS ==
    results # <<>> =>
        /\ grid_gdf.crs \in EqualAreaCRS
        /\ regions_gdf.crs \in EqualAreaCRS

\* the data set reduced to the field of one name
FieldGrid(dataset, name) ==
    [latitude |-> dataset.latitude, longitude |-> dataset.longitude,
     values |-> IF name = "mrt" THEN dataset.mrt ELSE dataset.values]

(***************************************************************************)
(* C13: a call of join_wbgt_to_geography that names several fields with    *)
(* var_names is accepted, and every record it returns carries for every    *)
(* named field the weighted mean of that field over the record's region,   *)
(* the value the aggregation of that field alone gives.                    *)
(***************************************************************************)
C13_FieldsAggregatedTogether ==
    var_names # <<>> =>
        /\ pc # "error"
        /\ pc = "done" =>
              \A rec \in Records : \A k \in 1..Len(var_names) :
                  /\ var_names[k] \in DOMAIN rec
                  /\ rec[var_names[k]] =
                         WeightedMean(FieldGrid(max_wbgt, var_names[k]),
                                      rec.geometry)

(***************************************************************************)
(* C15: the set of records join_wbgt_to_geography returns is the same for  *)
(* every order in which the regions are processed: it is the set of the    *)
(* records of the regions that share a point with the grid, each record    *)
(* determined by its own region and the grid.                              *)
(***************************************************************************)
C15_OrderIndependent ==
    pc = "done" =>
        /\ Records =
               { ExpectedRecord(max_wbgt, shapefile[k]) :
                   k \in { i \in 1..Len(shapefile) :
                             ~DisjointFromGrid(max_wbgt, shapefile[i].geometry) } }
        /\ Len(result_gdf.rows) = Cardinality(Records)

\* two regions stored against the order of their identifiers, both with a
\* record, the second with the value of its own cells
C15_Witness ==
    /\ pc = "done"
    /\ Len(shapefile) = 2
    /\ shapefile[1].GEOID = "05"
    /\ shapefile[2].GEOID = "01"
    /\ Len(result_gdf.rows) = 2
    /\ result_gdf.rows[1].wbgt # result_gdf.rows[2].wbgt
    /\ result_gdf.rows[2].wbgt = WeightedMean(max_wbgt, shapefile[2].geometry)

\* out is the field in with every missing cell holding the value of a cell
\* of in that is not missing and as near as any such cell; a field without
\* such a cell stays missing throughout
FilledFrom(out, in) ==
    /\ FieldCells(out) = FieldCells(in)
    /\ \A p \in Present(in) : out[p[1]][p[2]] = in[p[1]][p[2]]
    /\ \A p \in Missing(in) :
          IF Present(in) = {}
          THEN IsNaN(out[p[1]][p[2]])
          ELSE \E q \in Present(in) :
                  /\ \A t \in Present(in) : Dist2(p, q) <= Dist2(p, t)
                  /\ out[p[1]][p[2]] = in[q[1]][q[2]]

(***************************************************************************)
(* C14: for a data set with a time axis fill_mrt_data returns the slices   *)
(* under the same labels in the same order, and each returned slice is the *)
(* input slice of its label filled from the cells of that slice alone: it  *)
(* is what the gap filler gives for that slice on its own.                 *)
(***************************************************************************)
C14_SlicesFilledAlone ==
    (ds_filled.set /\ ds.has_time) =>
        /\ ds_filled.valid_time = ds.valid_time
        /\ Len(ds_filled.mrt) = Len(ds.mrt)
        /\ \A k \in 1..Len(ds.mrt) :
              /\ FilledFrom(ds_filled.mrt[k], ds.mrt[k])
              /\ ds_filled.mrt[k] = fill_nan_with_nearest_2d(ds.mrt[k])

\* two slices with gaps, the first holding only 1 and the second only 2:
\* each is filled with its own value, under its own label
C14_Witness ==
    /\ mpc = "done"
    /\ ds.valid_time = <<0, 2>>
    /\ ds.mrt = << << <<NaN, Flt(1)>>, <<NaN, Flt(1)>> >>,
                   << <<Flt(2), NaN>>, <<Flt(2), NaN>> >> >>
    /\ ds_filled.valid_time = <<0, 2>>
    /\ ds_filled.mrt = << << <<Flt(1), Flt(1)>>, <<Flt(1), Flt(1)>> >>,
                          << <<Flt(2), Flt(2)>>, <<Flt(2), Flt(2)>> >> >>

ValidGeoLimits == { "nation", "state", "county", "tract" }

ValidOutputTypes == { "grid", "counties", "tracts" }

(***************************************************************************)
(* C16: a call of get_wbgt whose geo_limit is outside nation, state,       *)
(* county, tract or whose output_type is outside grid, counties, tracts    *)
(* (case ignored) starts no boundary lookup, no download and no            *)
(* computation: it goes from its first step to a ValueError.               *)
(***************************************************************************)
C16_InvalidArgumentFailsFast ==
    (lower(geo_limit) \notin ValidGeoLimits
        \/ lower(output_type) \notin ValidOutputTypes) =>
        /\ started = {}
        /\ cpc \in {"bbox", "error"}
        /\ cpc = "error" => cerr = "ValueError"

(***************************************************************************)
(* C17: in the pair compute_daily_and_max_wbgt returns, the maximum at     *)
(* every cell is the largest of the returned daily values at that cell     *)
(* over the time steps (missing values skipped), in the same unit.         *)
(***************************************************************************)
C17_MaxIsMaxOfDaily ==
    kpc = "done" =>
        \A c \in 1..NCells :
            LET steps == { t \in 1..Len(daily_wbgt) : ~IsNaN(daily_wbgt[t][c]) }
            IN  IF steps = {}
                THEN IsNaN(wbgt_max[c])
                ELSE /\ \E t \in steps : wbgt_max[c] = daily_wbgt[t][c]
                     /\ \A t \in steps : ~FLess(wbgt_max[c], daily_wbgt[t][c])

(***************************************************************************)
(* C18: when download_era5_data or download_derived_utci_data has          *)
(* finished, by returning or by raising, neither the temporary download    *)
(* file nor the temporary extraction directory exists.                     *)
(***************************************************************************)
C18_TempFilesRemoved ==
    dpc \in {"returned", "raised"} => (~result_filename /\ ~extract_dir)

=============================================================================
